---------------------------- MODULE Spec2Model ----------------------------
(***************************************************************************)
(* A model of tools/zio-control/ZioControlHandlerUI.py: the descriptor     *)
(* parser ZioAttrMap, the extended attribute widget ZioExtendedAttribute   *)
(* and the form handler ZioControlHandlerUI.                               *)
(*                                                                         *)
(* A text (a Python str, a QLineEdit's text) is a sequence of one          *)
(* character strings: <<"1", "2">> is "12".  The conversions str(), int(), *)
(* int(.., 16), "{0:#x}".format() and str.isdigit() are computed character *)
(* by character.                                                           *)
(***************************************************************************)
EXTENDS Integers, Sequences, FiniteSets, TLC

\* ------------------------------------------------------------------ bounds
\* SpecExt: the largest capacity (length) of a ZioExtendedAttribute
MaxLength == 2
\* SpecMap: the longest fullpath of a descriptor line
MaxPath == 3
\* SpecIO: get_control is not run once __attr_map_list is longer than this
MaxMaps == 2

\* ------------------------------------------------------------ Python texts
DecChars == <<"0", "1", "2", "3", "4", "5", "6", "7", "8", "9">>
HexChars == DecChars \o <<"a", "b", "c", "d", "e", "f">>

IsDec(c) == \E k \in DOMAIN DecChars : DecChars[k] = c
IsHex(c) == \E k \in DOMAIN HexChars : HexChars[k] = c
HexDigit(c) == (CHOOSE k \in DOMAIN HexChars : HexChars[k] = c) - 1

\* a character such as the superscript two: str.isdigit() accepts it, int() does not
SupChars == {"sup2"}

Pow2(n) == 2 ^ n

\* mask & (1 << i), as a truth value; the masks of the model are below 2^31, where
\* the bits from 31 on are clear
Bit(mask, i) == i < 31 /\ (mask \div Pow2(i)) % 2 = 1

RECURSIVE NatStr(_)
NatStr(n) ==
    IF n < 10 THEN <<DecChars[n + 1]>>
    ELSE NatStr(n \div 10) \o <<DecChars[(n % 10) + 1]>>

\* str(n) of an integer n
PyStr(n) == IF n < 0 THEN <<"-">> \o NatStr(0 - n) ELSE NatStr(n)

RECURSIVE NatHex(_)
NatHex(n) ==
    IF n < 16 THEN <<HexChars[n + 1]>>
    ELSE NatHex(n \div 16) \o <<HexChars[(n % 16) + 1]>>

\* "{0:#x}".format(n)
PyHex(n) == IF n < 0 THEN <<"-", "0", "x">> \o NatHex(0 - n) ELSE <<"0", "x">> \o NatHex(n)

\* text.strip() of the blanks int() ignores
RECURSIVE LStrip(_)
LStrip(t) == IF t # <<>> /\ Head(t) = " " THEN LStrip(Tail(t)) ELSE t
RECURSIVE RStrip(_)
RStrip(t) == IF t # <<>> /\ t[Len(t)] = " " THEN RStrip(SubSeq(t, 1, Len(t) - 1)) ELSE t
Strip(t) == RStrip(LStrip(t))

HasSign(t) == t # <<>> /\ Head(t) \in {"-", "+"}
Unsigned(t) == IF HasSign(t) THEN Tail(t) ELSE t
Signed(t, n) == IF HasSign(t) /\ Head(t) = "-" THEN 0 - n ELSE n

RECURSIVE DigitsVal(_, _)
DigitsVal(t, base) ==
    IF t = <<>> THEN 0
    ELSE DigitsVal(SubSeq(t, 1, Len(t) - 1), base) * base + HexDigit(t[Len(t)])

\* int(text) succeeds: blanks, an optional sign, one or more decimal digits
IntOk(text) ==
    LET d == Unsigned(Strip(text))
    IN  d # <<>> /\ \A k \in DOMAIN d : IsDec(d[k])

\* int(text), where it succeeds
IntVal(text) == Signed(Strip(text), DigitsVal(Unsigned(Strip(text)), 10))

\* the digits of int(text, 16): after the sign, an optional 0x prefix
HexBody(text) ==
    LET d == Unsigned(Strip(text))
    IN  IF Len(d) >= 2 /\ d[1] = "0" /\ d[2] \in {"x", "X"} THEN SubSeq(d, 3, Len(d)) ELSE d

\* int(text, 16) succeeds
Int16Ok(text) ==
    LET d == HexBody(text)
    IN  d # <<>> /\ \A k \in DOMAIN d : IsHex(d[k])

\* int(text, 16), where it succeeds
Int16Val(text) == Signed(Strip(text), DigitsVal(HexBody(text), 16))

\* text.isdigit(): non-empty, every character a digit character
IsDigit(text) == text # <<>> /\ \A k \in DOMAIN text : IsDec(text[k]) \/ text[k] \in SupChars

\* ------------------------------------------------------------ ZioAttrMap
\* the k-th smallest member of a set of numbers
Nth(set, k) == CHOOSE x \in set : Cardinality({y \in set : y < x}) = k - 1

\* text.split(): the maximal runs of non-blank characters, in order
Split(text) ==
    LET starts == {i \in DOMAIN text : text[i] # " " /\ (i = 1 \/ text[i - 1] = " ")}
        ends == {i \in DOMAIN text : text[i] # " " /\ (i = Len(text) \/ text[i + 1] = " ")}
    IN  [k \in 1 .. Cardinality(starts) |-> SubSeq(text, Nth(starts, k), Nth(ends, k))]

\* text.split('/')[-1]: what follows the last '/'
RECURSIVE LastSegment(_)
LastSegment(text) ==
    IF text = <<>> THEN <<>>
    ELSE IF text[Len(text)] = "/" THEN <<>>
         ELSE Append(LastSegment(SubSeq(text, 1, Len(text) - 1)), text[Len(text)])

StartsWith(text, old) == Len(old) <= Len(text) /\ SubSeq(text, 1, Len(old)) = old

\* text.replace(old, ""): every occurrence of old removed, scanning from the left
\* (an empty old leaves the text as it is)
RECURSIVE Remove(_, _)
Remove(text, old) ==
    IF old = <<>> \/ text = <<>> THEN text
    ELSE IF StartsWith(text, old) THEN Remove(SubSeq(text, Len(old) + 1, Len(text)), old)
         ELSE <<Head(text)>> \o Remove(Tail(text), old)

\* tmp & (S_IWUSR | S_IWGRP | S_IWOTH), tmp & (S_IRUSR | S_IRGRP | S_IROTH)
AnyWriteBit(tmp) == \E b \in {1, 4, 7} : Bit(tmp, b)
AnyReadBit(tmp) == \E b \in {2, 5, 8} : Bit(tmp, b)

\* ZioAttrMap(desc_line): the object built, or the exception raised
ZioAttrMap(desc_line) ==
    LET field == Split(desc_line)
    IN  IF Len(field) < 4 THEN [err |-> "IndexError"]
        ELSE IF ~IntOk(field[3]) \/ ~IntOk(field[4]) THEN [err |-> "ValueError"]
        ELSE LET fullpath == field[1]
                 name == LastSegment(fullpath)
             IN  [err |-> "",
                  fullpath |-> fullpath,
                  name |-> name,
                  path |-> Remove(fullpath, name),
                  is_extended |-> (field[2] = <<"e">>),
                  index |-> IntVal(field[3]),
                  is_writable |-> AnyWriteBit(IntVal(field[4])),
                  is_readable |-> AnyReadBit(IntVal(field[4]))]

VARIABLES
    desc_line,  \* a line of a control-description file
    attrmap,    \* the ZioAttrMap built from it
    length,     \* ZioExtendedAttribute.length
    attr_list,  \* ZioExtendedAttribute.__attr_list: per slot the edit's text and disabled flag
    last,       \* the last call on the object: its name, arguments and return value
    setval,     \* per slot, <<v>> if the last setValues enabled it with value v, <<>> if not
    maskoff,    \* slots a setDisabledMask has disabled since the last setValues
    ctrl,           \* ZioControlHandlerUI.ctrl
    ui,             \* the text of each QLineEdit of the form
    dis,            \* the disabled flag of each QLineEdit of the form
    combo,          \* cmb_trg_name
    locked,         \* ckb_lock_field
    dev_ext_attr,   \* ZioControlHandlerUI.dev_ext_attr.__attr_list
    trg_ext_attr,   \* ZioControlHandlerUI.trg_ext_attr.__attr_list
    attr_map_list,  \* ZioControlHandlerUI.__attr_map_list
    devfile,        \* the control files: path -> the control block the device holds
    call            \* the last event handled: what ran, what it raised, what it saw

extVars == <<length, attr_list, last, setval, maskoff>>
mapVars == <<desc_line, attrmap>>
uiVars == <<ctrl, ui, dis, combo, locked, dev_ext_attr, trg_ext_attr, attr_map_list,
            devfile, call>>
vars == <<extVars, mapVars, uiVars>>

UiIdle ==
    /\ ctrl = <<>>
    /\ ui = <<>>
    /\ dis = <<>>
    /\ combo = <<>>
    /\ locked = FALSE
    /\ dev_ext_attr = <<>>
    /\ trg_ext_attr = <<>>
    /\ attr_map_list = <<>>
    /\ devfile = <<>>
    /\ call = <<>>

ExtIdle ==
    /\ length = 0
    /\ attr_list = <<>>
    /\ last = <<>>
    /\ setval = <<>>
    /\ maskoff = {}

MapIdle ==
    /\ desc_line = <<>>
    /\ attrmap = <<>>

\* ------------------------------------------------- ZioExtendedAttribute
\* slot index i of the code is position i + 1 of the sequence

setDisabled(list, index, status) == [list EXCEPT ![index + 1].disabled = status]

\* str_val is the text str(str_val) of the value passed
setValue(list, index, str_val) == [list EXCEPT ![index + 1].text = str_val]

getValue(list, index) ==
    IF IntOk(list[index + 1].text) THEN IntVal(list[index + 1].text) ELSE 0

\* a setValues that leaves the text of a slot it disables
setValuesKeep(list, len, mask, value) ==
    [k \in 1 .. len |->
        IF Bit(mask, k - 1) /\ k - 1 < Len(value)
        THEN [list[k] EXCEPT !.text = PyStr(value[k]), !.disabled = FALSE]
        ELSE [list[k] EXCEPT !.disabled = TRUE]]

\* each pass of the loop touches slot i alone: the slots are computed one by one
setValues(list, len, mask, value) ==
    [k \in 1 .. len |->
        LET i == k - 1
            cleared == setValue(setDisabled(list, i, TRUE), i, <<>>)
        IN  IF Bit(mask, i) /\ i < Len(value)
            THEN setValue(setDisabled(cleared, i, FALSE), i, PyStr(value[i + 1]))[k]
            ELSE cleared[k]]

getValues(list, len, mask) ==
    [k \in 1 .. len |-> IF Bit(mask, k - 1) THEN getValue(list, k - 1) ELSE 0]

\* a setDisabledMask that also clears the text of a slot it disables
setDisabledMaskClear(list, len, mask) ==
    [k \in 1 .. len |->
        IF Bit(mask, k - 1) THEN [list[k] EXCEPT !.disabled = FALSE]
        ELSE [list[k] EXCEPT !.text = <<>>, !.disabled = TRUE]]

\* a setDisabledMask with the sense of the mask inverted
setDisabledMaskInv(list, len, mask) ==
    [k \in 1 .. len |-> [list[k] EXCEPT !.disabled = Bit(mask, k - 1)]]

setDisabledMask(list, len, mask) ==
    [k \in 1 .. len |->
        IF Bit(mask, k - 1) THEN setDisabled(list, k - 1, FALSE)[k]
        ELSE setDisabled(list, k - 1, TRUE)[k]]

\* __init__: `length` attributes, each a QLabel "Attribute i" and a fresh
\* QLineEdit (empty, enabled)
NewAttrList(len) ==
    [k \in 1 .. len |->
        [lbl |-> <<"A", "t", "t", "r", "i", "b", "u", "t", "e", " ">> \o PyStr(k - 1),
         text |-> <<>>,
         disabled |-> FALSE]]

\* sub in text
Contains(text, sub) ==
    \E k \in 0 .. (Len(text) - Len(sub)) : SubSeq(text, k + 1, k + Len(sub)) = sub

TriggerWord == <<"t", "r", "i", "g", "g", "e", "r">>

\* updateLabels: the label of slot map.index becomes map.name, for each extended
\* descriptor of the widget's kind; an index beyond the slots raises IndexError
RECURSIVE updateLabels(_, _, _, _)
updateLabels(list, ext_type, map_list, k) ==
    IF k > Len(map_list) THEN [list |-> list, err |-> ""]
    ELSE LET map == map_list[k]
             mine == /\ map.is_extended
                     /\ \/ ext_type = "trigger" /\ Contains(map.fullpath, TriggerWord)
                        \/ ext_type = "channel" /\ ~Contains(map.fullpath, TriggerWord)
         IN  IF ~mine THEN updateLabels(list, ext_type, map_list, k + 1)
             ELSE IF map.index + 1 \notin DOMAIN list
                       /\ (0 - map.index) \notin DOMAIN list
                  THEN [list |-> list, err |-> "IndexError"]
                  ELSE LET pos == IF map.index >= 0 THEN map.index + 1
                                  ELSE Len(list) + map.index + 1
                       IN  updateLabels([list EXCEPT ![pos].lbl = map.name],
                                        ext_type, map_list, k + 1)

\* the attribute values tried: negative, zero, several digits
Vals == {0 - 1, 12}
\* the masks tried: every mask of the slots, and two with a bit beyond the capacity
Masks(len) == (0 .. (Pow2(len) - 1)) \cup {Pow2(len), Pow2(len + 1) - 1}
\* the value sequences tried: shorter than, as long as and longer than the capacity
ValSeqs(len) == UNION {[1 .. n -> Vals] : n \in 0 .. MaxLength}
NoCall == [op |-> "init", mask |-> 0, value |-> <<>>, ret |-> <<>>]

ExtInit ==
    /\ length \in 1 .. MaxLength
    /\ attr_list = NewAttrList(length)
    /\ last = NoCall
    /\ setval = [i \in 0 .. (length - 1) |-> <<>>]
    /\ maskoff = {}
    /\ MapIdle
    /\ UiIdle

ExtSetValues ==
    \E mask \in Masks(length), value \in ValSeqs(length) :
        /\ attr_list' = setValues(attr_list, length, mask, value)
        /\ last' = [NoCall EXCEPT !.op = "setValues", !.mask = mask, !.value = value]
        /\ setval' = [i \in 0 .. (length - 1) |->
                        IF Bit(mask, i) /\ i < Len(value) THEN <<value[i + 1]>> ELSE <<>>]
        /\ maskoff' = {}
        /\ UNCHANGED <<length, mapVars, uiVars>>

ExtGetValues ==
    \E mask \in Masks(length) :
        /\ last' = [NoCall EXCEPT !.op = "getValues", !.mask = mask,
                                  !.ret = getValues(attr_list, length, mask)]
        /\ UNCHANGED <<length, attr_list, setval, maskoff, mapVars, uiVars>>

ExtSetDisabledMask ==
    \E mask \in Masks(length) :
        /\ attr_list' = setDisabledMask(attr_list, length, mask)
        /\ last' = [NoCall EXCEPT !.op = "setDisabledMask", !.mask = mask]
        /\ maskoff' = maskoff \cup {i \in 0 .. (length - 1) : ~Bit(mask, i)}
        /\ UNCHANGED <<length, setval, mapVars, uiVars>>

ExtNext == ExtSetValues \/ ExtGetValues \/ ExtSetDisabledMask

SpecExt == ExtInit /\ [][ExtNext]_vars

Slots == 0 .. (length - 1)

\* what C1 says getValues(m) returns after setValues(m, v)
Expected(len, m, v) ==
    [k \in 1 .. len |-> IF Bit(m, k - 1) /\ k - 1 < Len(v) THEN v[k] ELSE 0]

\* C1: right after setValues(m, v), getValues(m) returns exactly `length` entries,
\* entry i being v[i] if bit i of m is set and i < len(v), and 0 otherwise; bits of
\* m at positions >= length change nothing.
C1_SetThenGet ==
    last.op = "setValues" =>
        /\ getValues(attr_list, length, last.mask) = Expected(length, last.mask, last.value)
        /\ Len(getValues(attr_list, length, last.mask)) = length
        /\ getValues(attr_list, length, last.mask % Pow2(length))
              = getValues(attr_list, length, last.mask)

\* C1's case: a setValues with a mask bit beyond the capacity, a slot whose bit is
\* set but has no value, and a slot whose bit is set with a value other than 0
C1_Witness ==
    /\ last.op = "setValues"
    /\ last.mask >= Pow2(length)
    /\ \E i \in Slots : Bit(last.mask, i) /\ i >= Len(last.value)
    /\ \E i \in Slots : Bit(last.mask, i) /\ i < Len(last.value) /\ last.value[i + 1] # 0

\* C2 as stated: a slot that setValues enabled with a value and that a later
\* setDisabledMask disabled has had its stored value cleared, so that once
\* re-enabled getValues returns 0 for it, never the earlier value.
C2_DisableClears ==
    \A i \in Slots :
        (setval[i] # <<>> /\ i \in maskoff) =>
            /\ attr_list[i + 1].text = <<>>
            /\ (last.op = "getValues" /\ Bit(last.mask, i)) => last.ret[i + 1] = 0

\* C2 amended: setDisabledMask never clears a stored value. After setValues(m, v)
\* and any sequence of setDisabledMask calls, getValues(m2) returns at index i the
\* value v[i] if bit i is set in m and in m2 and i < len(v), and 0 otherwise:
\* a slot disabled by the mask reads 0 only while its bit in m2 is clear, and
\* reads the earlier v[i] again once re-enabled.
C2_StaleSurvives ==
    last.op = "getValues" =>
        \A i \in Slots :
            last.ret[i + 1] =
                IF Bit(last.mask, i) /\ setval[i] # <<>> THEN setval[i][1] ELSE 0

\* C2's case: a slot set to a non-zero value, disabled by a setDisabledMask,
\* re-enabled, and read by getValues with its bit set
C2_Witness ==
    /\ last.op = "getValues"
    /\ \E i \in Slots :
           /\ setval[i] \notin {<<>>, <<0>>}
           /\ i \in maskoff
           /\ ~attr_list[i + 1].disabled
           /\ Bit(last.mask, i)
           /\ last.ret[i + 1] = setval[i][1]

\* C3: setDisabledMask(mask) leaves slot i enabled iff bit i of mask is set, and
\* leaves the text of every slot as it was.
C3_MaskOnlyToggles ==
    [][last'.op = "setDisabledMask" =>
          \A k \in 1 .. length :
              /\ attr_list'[k].disabled = ~Bit(last'.mask, k - 1)
              /\ attr_list'[k].text = attr_list[k].text]_vars

\* C3's case: a setDisabledMask that left disabled a slot holding a value (which
\* setValues never does) and enabled a slot that setValues had disabled
C3_Witness ==
    /\ last.op = "setDisabledMask"
    /\ \E k \in 1 .. length : attr_list[k].disabled /\ attr_list[k].text # <<>>
    /\ \E k \in 1 .. length : ~attr_list[k].disabled /\ setval[k - 1] = <<>>

\* --------------------------------------------------- descriptor parsing
PathChars == {"a", "b", "/"}
FullPaths == UNION {[1 .. n -> PathChars] : n \in 1 .. MaxPath}
\* type flag, index and mode of the lines tried (0644 and 0444 as the decimal text
\* the parser reads, and a mode that is no number)
LineTails == {<<" ", "e", " ", "3", " ", "4", "2", "0">>,
              <<" ", "s", " ", "0", " ", "2", "9", "2">>,
              <<" ", "e", " ", "1", " ", "r", "w">>,
              <<" ", "e">>}
DescLines == {p \o t : p \in FullPaths, t \in LineTails}

MapInit ==
    /\ desc_line \in DescLines
    /\ attrmap = <<>>
    /\ ExtIdle
    /\ UiIdle

\* ZioAttrMap(desc_line), as get_control_descrition calls it for a line
MapParse ==
    /\ attrmap = <<>>
    /\ attrmap' = ZioAttrMap(desc_line)
    /\ UNCHANGED <<desc_line, extVars, uiVars>>

\* the next line of the file
MapNextLine ==
    /\ attrmap # <<>>
    /\ desc_line' \in DescLines
    /\ attrmap' = <<>>
    /\ UNCHANGED <<extVars, uiVars>>

MapNext == MapParse \/ MapNextLine

SpecMap == MapInit /\ [][MapNext]_vars

Parsed == attrmap # <<>> /\ attrmap.err = ""

\* C8: for a parsed line, name is the last '/'-delimited segment of fullpath and
\* path is fullpath with only that trailing segment removed: path followed by name
\* is fullpath, also when the text of name occurs earlier in fullpath.
C8_PathThenName ==
    Parsed =>
        /\ attrmap.name = LastSegment(attrmap.fullpath)
        /\ attrmap.path \o attrmap.name = attrmap.fullpath


\* ------------------------------------------------- ZioControlHandlerUI
\* The handler's state is gathered in a record m while a handler runs:
\*   ctrl     self.ctrl, the control block
\*   ui       the text of every QLineEdit of the form
\*   dis      the disabled flag of every QLineEdit of the form
\*   combo    cmb_trg_name: its items and current index (-1: none)
\*   dev_ext, trg_ext   the __attr_list of self.dev_ext_attr, self.trg_ext_attr
\*   maps     self.__attr_map_list
\*   err      the exception raised and not caught ("" while none is)
\*   done     the steps of get_control / set_control completed so far
\* A step on a record whose err is set does nothing: the exception propagates.

ExtLength == 32
PadWidth == 12

dev_std_attr == <<"edt_dev_nbit", "edt_dev_gain", "edt_dev_offset", "edt_dev_rate",
                  "edt_dev_vref", "edt_dev_version">>
trg_std_attr == <<"edt_trg_nshot", "edt_trg_post", "edt_trg_pre", "edt_trg_version">>

\* the fields lock_fields() disables and enables
LockedFields == {"edt_vm1", "edt_vm2", "edt_nbits", "edt_nsample", "edt_hosttype",
                 "edt_hostid", "edt_devid", "edt_cset", "edt_chan", "edt_devname",
                 "edt_dev_name", "edt_dev_stdmask", "edt_dev_extmask"}

Range(seq) == {seq[k] : k \in DOMAIN seq}

Widgets ==
    {"edt_file", "edt_vm1", "edt_vm2", "edt_nseq", "edt_ssize", "edt_nbits",
     "edt_nsample", "edt_alarm_zio", "edt_alarm_dev", "edt_flags", "edt_hosttype",
     "edt_hostid", "edt_devid", "edt_cset", "edt_chan", "edt_devname", "edt_sec",
     "edt_ticks", "edt_bins", "edt_dev_name", "edt_dev_stdmask", "edt_dev_extmask",
     "edt_trg_stdmask", "edt_trg_extmask"}
    \cup Range(dev_std_attr) \cup Range(trg_std_attr)

Raise(m, e) == IF m.err # "" THEN m ELSE [m EXCEPT !.err = e]
Did(m, step) == IF m.err # "" THEN m ELSE [m EXCEPT !.done = Append(@, step)]

\* update_nsample and update_nbit are the slots of textChanged; setText emits
\* textChanged only when it changes the text
RECURSIVE SetText(_, _, _)

update_nsample(m, text) ==
    LET post == m.ui["edt_trg_post"]
        pre == m.ui["edt_trg_pre"]
    IN  IF IsDigit(post) /\ ~IntOk(post) THEN Raise(m, "ValueError")
        ELSE IF IsDigit(pre) /\ ~IntOk(pre) THEN Raise(m, "ValueError")
        ELSE SetText(m, "edt_nsample",
                     PyStr((IF IsDigit(post) THEN IntVal(post) ELSE 0)
                           + (IF IsDigit(pre) THEN IntVal(pre) ELSE 0)))

update_nbit(m, text) ==
    IF IsDigit(text) THEN SetText(m, "edt_nbits", text)
    ELSE SetText(m, "edt_nbits", <<>>)

textChanged(m, w, text) ==
    IF w \in {"edt_trg_post", "edt_trg_pre"} THEN update_nsample(m, text)
    ELSE IF w = "edt_dev_nbit" THEN update_nbit(m, text)
    ELSE m

SetText(m, w, text) ==
    IF m.err # "" THEN m
    ELSE IF m.ui[w] = text THEN m
    ELSE textChanged([m EXCEPT !.ui[w] = text], w, text)

SetDisabledW(m, w, status) == IF m.err # "" THEN m ELSE [m EXCEPT !.dis[w] = status]

\* __std_mask_edited: one pass of its loop per widget, from widget k on
RECURSIVE std_mask_edited(_, _, _, _)
std_mask_edited(m, attrs_gui, mask, k) ==
    IF m.err # "" \/ k > Len(attrs_gui) THEN m
    ELSE std_mask_edited(SetDisabledW(m, attrs_gui[k], ~Bit(mask, k - 1)),
                         attrs_gui, mask, k + 1)

\* __dev_std_mask_edited, __trg_std_mask_edited: int(text, 16) of the mask field
StdMaskEdited(m, w, attrs_gui) ==
    IF ~Int16Ok(m.ui[w]) THEN Raise(m, "ValueError")
    ELSE std_mask_edited(m, attrs_gui, Int16Val(m.ui[w]), 1)

\* __dev_ext_mask_edited, __trg_ext_mask_edited, through __ext_mask_edited
ExtMaskEdited(m, w, which) ==
    IF ~Int16Ok(m.ui[w]) THEN Raise(m, "ValueError")
    ELSE [m EXCEPT ![which] = setDisabledMask(@, ExtLength, Int16Val(m.ui[w]))]

\* lock_fields, for the state the check box now has: setDisabled(state) on each
\* of its fields
lock_fields(m, state) ==
    [m EXCEPT !.dis = [w \in DOMAIN @ |-> IF w \in LockedFields THEN state ELSE @[w]]]

\* trg_name + '\x00' * (12 - len(trg_name))
Pad(name) ==
    IF Len(name) >= PadWidth THEN name
    ELSE name \o [k \in 1 .. (PadWidth - Len(name)) |-> "NUL"]

\* combo.findText(selection): the first item equal to it, or -1
FindText(items, selection) ==
    IF \E k \in DOMAIN items : items[k] = selection
    THEN (CHOOSE k \in DOMAIN items : items[k] = selection /\ \A j \in 1 .. (k - 1) : items[j] # selection) - 1
    ELSE 0 - 1

\* __fill_combo_available_trigger, given the lines of available_triggers
fill_combo(m, triggers, selection) ==
    IF m.err # "" THEN m
    ELSE LET items == [k \in DOMAIN triggers |-> Pad(triggers[k])]
         IN  [m EXCEPT !.combo = [items |-> items, index |-> FindText(items, selection)]]

currentText(box) == IF box.index < 0 THEN <<>> ELSE box.items[box.index + 1]

\* __update_extended_attributes
update_extended_attributes(m, which, ext_type, attr_set) ==
    IF m.err # "" THEN m
    ELSE LET set == setValues(m[which], ExtLength, attr_set.ext_mask, attr_set.ext_val)
             lab == updateLabels(set, ext_type, m.maps, 1)
         IN  Raise([m EXCEPT ![which] = lab.list], lab.err)

\* one assignment of update_ctrl: ctrl.field = int(widget text) or int(text, 16)
Store(m, field, w, base) ==
    IF m.err # "" THEN m
    ELSE IF base = 10
         THEN (IF IntOk(m.ui[w]) THEN [m EXCEPT !.ctrl[field] = IntVal(m.ui[w])]
               ELSE Raise(m, "ValueError"))
         ELSE (IF Int16Ok(m.ui[w]) THEN [m EXCEPT !.ctrl[field] = Int16Val(m.ui[w])]
               ELSE Raise(m, "ValueError"))

\* ctrl.<set>.std_mask and ext_mask = int(text, 16)
StoreMasks(m, set, wstd, wext) ==
    IF m.err # "" THEN m
    ELSE IF ~Int16Ok(m.ui[wstd]) THEN Raise(m, "ValueError")
    ELSE LET m1 == [m EXCEPT !.ctrl[set].std_mask = Int16Val(m.ui[wstd])]
         IN  IF ~Int16Ok(m.ui[wext]) THEN Raise(m1, "ValueError")
             ELSE [m1 EXCEPT !.ctrl[set].ext_mask = Int16Val(m.ui[wext])]

\* pass k of the loop of update_ctrl over the standard attribute widgets
StoreStd(m, set, attrs_gui, k) ==
    IF m.err # "" THEN m
    ELSE IF ~Bit(m.ctrl[set].std_mask, k - 1) THEN m
    ELSE IF ~IntOk(m.ui[attrs_gui[k]]) THEN Raise(m, "ValueError")
    ELSE [m EXCEPT !.ctrl[set].std_val[k] = IntVal(m.ui[attrs_gui[k]])]

StoreExt(m, set, which) ==
    IF m.err # "" THEN m
    ELSE [m EXCEPT !.ctrl[set].ext_val = getValues(m[which], ExtLength, m.ctrl[set].ext_mask)]

\* update_form and update_ctrl are straight runs of statements.  A run is written
\* as the sequence of its statements, and Run executes them in order, each on the
\* record the one before it left.
Exec(m, st) ==
    IF m.err # "" THEN m
    ELSE CASE st.op = "setText" -> SetText(m, st.w, st.text)
           [] st.op = "setDisabled" -> SetDisabledW(m, st.w, st.status)
           [] st.op = "ext" -> update_extended_attributes(m, st.which, st.ext_type, st.attr_set)
           [] st.op = "combo" -> fill_combo(m, st.triggers, st.selection)
           [] st.op = "int" -> Store(m, st.field, st.w, st.base)
           [] st.op = "devname" -> [m EXCEPT !.ctrl.devname = m.ui["edt_devname"]]
           [] st.op = "triggername" -> [m EXCEPT !.ctrl.triggername = currentText(m.combo)]
           [] st.op = "masks" -> StoreMasks(m, st.set, st.wstd, st.wext)
           [] st.op = "std_val" -> StoreStd(m, st.set, st.attrs_gui, st.k)
           [] st.op = "ext_val" -> StoreExt(m, st.set, st.which)

\* statements lo .. hi of the run, the first half before the second
RECURSIVE Run(_, _, _, _)
Run(m, run, lo, hi) ==
    IF lo > hi THEN m
    ELSE IF lo = hi THEN Exec(m, run[lo])
    ELSE LET mid == (lo + hi) \div 2
         IN  CHOOSE r \in {Run(half, run, mid + 1, hi) : half \in {Run(m, run, lo, mid)}} : TRUE

\* __update_standard_attributes: two statements per widget of the loop, then the
\* two on attrs_gui[-1] that bit 15 selects
update_standard_attributes(attrs_gui, attr_set) ==
    LET lastw == attrs_gui[Len(attrs_gui)]
    IN  [j \in 1 .. (2 * Len(attrs_gui)) |->
            LET k == (j + 1) \div 2
                set == Bit(attr_set.std_mask, k - 1)
            IN  IF j % 2 = 1
                THEN [op |-> "setDisabled", w |-> attrs_gui[k], status |-> ~set]
                ELSE [op |-> "setText", w |-> attrs_gui[k],
                      text |-> IF set THEN PyStr(attr_set.std_val[k]) ELSE <<>>]]
        \o (IF Bit(attr_set.std_mask, 15)
            THEN << [op |-> "setText", w |-> lastw, text |-> PyHex(attr_set.std_val[16])],
                    [op |-> "setDisabled", w |-> lastw, status |-> FALSE] >>
            ELSE << [op |-> "setText", w |-> lastw, text |-> <<>>],
                    [op |-> "setDisabled", w |-> lastw, status |-> TRUE] >>)

setText(w, text) == [op |-> "setText", w |-> w, text |-> text]

\* the statements of update_form, for the control block c
update_form_run(c, triggers) ==
    << setText("edt_vm1", PyStr(c.major_version)),
       setText("edt_vm2", PyStr(c.minor_version)),
       setText("edt_nseq", PyStr(c.seq_num)),
       setText("edt_ssize", PyStr(c.ssize)),
       setText("edt_nbits", PyStr(c.nbits)),
       setText("edt_nsample", PyStr(c.nsamples)),
       setText("edt_alarm_zio", PyHex(c.alarms_zio)),
       setText("edt_alarm_dev", PyHex(c.alarms_dev)),
       setText("edt_flags", PyHex(c.flags)),
       setText("edt_hosttype", PyStr(c.host_type)),
       setText("edt_hostid", PyStr(c.hostid)),
       setText("edt_devid", PyStr(c.dev_id)),
       setText("edt_cset", PyStr(c.cset_i)),
       setText("edt_chan", PyStr(c.chan_i)),
       setText("edt_devname", c.devname),
       setText("edt_sec", PyStr(c.seconds)),
       setText("edt_ticks", PyStr(c.ticks)),
       setText("edt_bins", PyStr(c.bins)),
       setText("edt_dev_name", c.devname),
       setText("edt_dev_stdmask", PyHex(c.attr_channel.std_mask)),
       setText("edt_dev_extmask", PyHex(c.attr_channel.ext_mask)) >>
    \o update_standard_attributes(dev_std_attr, c.attr_channel)
    \o << [op |-> "ext", which |-> "dev_ext", ext_type |-> "channel",
           attr_set |-> c.attr_channel],
          [op |-> "combo", triggers |-> triggers, selection |-> c.triggername],
          setText("edt_trg_stdmask", PyHex(c.attr_trigger.std_mask)),
          setText("edt_trg_extmask", PyHex(c.attr_trigger.ext_mask)) >>
    \o update_standard_attributes(trg_std_attr, c.attr_trigger)
    \o << [op |-> "ext", which |-> "trg_ext", ext_type |-> "trigger",
           attr_set |-> c.attr_trigger] >>

update_form(m, triggers) ==
    IF m.err # "" THEN m
    ELSE LET run == update_form_run(m.ctrl, triggers)
         IN  Run(m, run, 1, Len(run))

int(field, w, base) == [op |-> "int", field |-> field, w |-> w, base |-> base]

\* the loop of update_ctrl over the standard attribute widgets
std_val(set, attrs_gui) ==
    [k \in 1 .. Len(attrs_gui) |->
        [op |-> "std_val", set |-> set, attrs_gui |-> attrs_gui, k |-> k]]

\* the statements of update_ctrl
update_ctrl_run ==
    << int("major_version", "edt_vm1", 10),
       int("minor_version", "edt_vm2", 10),
       int("seq_num", "edt_nseq", 10),
       int("ssize", "edt_ssize", 10),
       int("nbits", "edt_nbits", 10),
       int("nsamples", "edt_nsample", 10),
       int("alarms_zio", "edt_alarm_zio", 16),
       int("alarms_dev", "edt_alarm_dev", 16),
       int("flags", "edt_flags", 16),
       int("host_type", "edt_hosttype", 10),
       int("dev_id", "edt_devid", 10),
       int("cset_i", "edt_cset", 10),
       int("chan_i", "edt_chan", 10),
       [op |-> "devname"],
       int("seconds", "edt_sec", 10),
       int("ticks", "edt_ticks", 10),
       int("bins", "edt_bins", 10),
       [op |-> "masks", set |-> "attr_channel", wstd |-> "edt_dev_stdmask",
        wext |-> "edt_dev_extmask"] >>
    \o std_val("attr_channel", dev_std_attr)
    \o << [op |-> "ext_val", set |-> "attr_channel", which |-> "dev_ext"],
          [op |-> "triggername"],
          [op |-> "masks", set |-> "attr_trigger", wstd |-> "edt_trg_stdmask",
           wext |-> "edt_trg_extmask"] >>
    \o std_val("attr_trigger", trg_std_attr)
    \o << [op |-> "ext_val", set |-> "attr_trigger", which |-> "trg_ext"] >>

update_ctrl(m) == Run(m, update_ctrl_run, 1, Len(update_ctrl_run))

\* ------------------------------------------------------- files and paths
\* path.split('/'): what lies before, between and after the '/' of the path
SplitOn(text) ==
    LET seps == {i \in DOMAIN text : text[i] = "/"}
        n == Cardinality(seps)
    IN  [k \in 1 .. (n + 1) |->
            SubSeq(text,
                   (IF k = 1 THEN 0 ELSE Nth(seps, k - 1)) + 1,
                   (IF k = n + 1 THEN Len(text) + 1 ELSE Nth(seps, k)) - 1)]

Letters == Range(<<"a", "b", "c", "d", "e", "f", "g", "h", "i", "j", "k", "l", "m", "n",
                   "o", "p", "q", "r", "s", "t", "u", "v", "w", "x", "y", "z", "_">>)

\* text[s .. e] matches [\w\-]+-\d{4}
MatchesAt(text, s, e) ==
    /\ e - s >= 5
    /\ \A k \in s .. (e - 5) : IsDec(text[k]) \/ text[k] \in Letters \/ text[k] = "-"
    /\ text[e - 4] = "-"
    /\ \A k \in (e - 3) .. e : IsDec(text[k])

\* re.search(r'[\w\-]+-\d{4}', path).group(0): the leftmost match, at its longest;
\* <<>> when there is none
Search(text) ==
    LET starts == {st \in DOMAIN text : \E e \in DOMAIN text : MatchesAt(text, st, e)}
    IN  IF starts = {} THEN <<>>
        ELSE LET s0 == CHOOSE st \in starts : \A o \in starts : st <= o
                 ends == {e \in DOMAIN text : MatchesAt(text, s0, e)}
                 e0 == CHOOSE e \in ends : \A o \in ends : o <= e
             IN  SubSeq(text, s0, e0)

SysDevices == <<"/", "s", "y", "s", "/", "b", "u", "s", "/", "z", "i", "o", "/",
                "d", "e", "v", "i", "c", "e", "s", "/">>

PathA == <<"/", "d", "e", "v", "/", "z", "i", "o", "/", "a", "-", "0", "0", "0", "0",
           "-", "0", "-", "0", "-", "c", "t", "r", "l">>
PathB == <<"/", "d", "e", "v", "/", "z", "i", "o", "/", "b", "-", "0", "0", "0", "1",
           "-", "0", "-", "0", "-", "c", "t", "r", "l">>
PathNoDev == <<"/", "d", "e", "v", "/", "c", "t", "r", "l">>
PathTmp == <<"/", "t", "m", "p", "/", "x">>

\* the control-description file of each device directory: a header line, then one
\* descriptor per line
DescFiles ==
    (SysDevices \o <<"a", "-", "0", "0", "0", "0">> :>
        << <<"2">>,
           <<"c", "s", "e", "t", "0", "/", "g", "a", "i", "n", " ", "e", " ", "0", " ",
             "4", "2", "0">>,
           <<"t", "r", "i", "g", "g", "e", "r", "/", "d", "e", "l", "a", "y", " ", "e",
             " ", "0", " ", "4", "2", "0">> >>)
    @@ (SysDevices \o <<"b", "-", "0", "0", "0", "1">> :>
        << <<"1">>,
           <<"c", "s", "e", "t", "0", "/", "r", "a", "n", "g", "e", " ", "e", " ", "1",
             " ", "2", "9", "2">> >>)

\* /sys/bus/zio/available_triggers
TriggersFile == << <<"u", "s", "e", "r">>, <<"t", "i", "m", "e", "r">> >>

\* ZioCtrl(): a control block with every field zero or empty
NewZioCtrl ==
    [major_version |-> 0, minor_version |-> 0, seq_num |-> 0, ssize |-> 0, nbits |-> 0,
     nsamples |-> 0, alarms_zio |-> 0, alarms_dev |-> 0, flags |-> 0,
     host_type |-> 0, hostid |-> 0, dev_id |-> 0, cset_i |-> 0, chan_i |-> 0,
     devname |-> <<>>, seconds |-> 0, ticks |-> 0, bins |-> 0, triggername |-> <<>>,
     attr_channel |-> [std_mask |-> 0, ext_mask |-> 0,
                       std_val |-> [k \in 1 .. 16 |-> 0],
                       ext_val |-> [k \in 1 .. ExtLength |-> 0]],
     attr_trigger |-> [std_mask |-> 0, ext_mask |-> 0,
                       std_val |-> [k \in 1 .. 16 |-> 0],
                       ext_val |-> [k \in 1 .. ExtLength |-> 0]]]

\* ctrl.unpack_to_ctrl(data) of the bytes ctrl.pack_to_bin() wrote: the same block
unpack_to_ctrl(c, data) == data
pack_to_bin(c) == c

\* a control block a device may hold: the masks, nbits and nsamples given, the
\* attribute values fixed
Block(dev_std, trg_std, ext, nbits, nsamples) ==
    [NewZioCtrl EXCEPT
        !.major_version = 1, !.seq_num = 3, !.ssize = 2, !.nbits = nbits,
        !.nsamples = nsamples, !.flags = 26, !.dev_id = 1, !.chan_i = 2,
        !.devname = <<"a">>, !.seconds = 10,
        !.triggername = Pad(<<"u", "s", "e", "r">>),
        !.attr_channel = [std_mask |-> dev_std, ext_mask |-> ext,
                          std_val |-> [k \in 1 .. 16 |->
                                         IF k = 1 THEN 8 ELSE IF k = 6 THEN 7
                                         ELSE IF k = 16 THEN 26 ELSE 0],
                          ext_val |-> [k \in 1 .. ExtLength |->
                                         IF k = 1 THEN 5 ELSE IF k = ExtLength - 1 THEN 9 ELSE 0]],
        !.attr_trigger = [std_mask |-> trg_std, ext_mask |-> ext,
                          std_val |-> [k \in 1 .. 16 |->
                                         IF k = 2 THEN 8 ELSE IF k = 3 THEN 120
                                         ELSE IF k = 4 THEN 6 ELSE IF k = 16 THEN 1 ELSE 0],
                          ext_val |-> [k \in 1 .. ExtLength |->
                                         IF k = 2 THEN 4 ELSE 0]]]

\* ------------------------------------------------- get_control, set_control
RECURSIVE AppendMaps(_, _)
AppendMaps(m, lines) ==
    IF m.err # "" \/ lines = <<>> THEN m
    ELSE LET map == ZioAttrMap(lines[1])
         IN  IF map.err # "" THEN Raise(m, map.err)
             ELSE AppendMaps([m EXCEPT !.maps = Append(@, map)], Tail(lines))

\* get_control_descrition: open() raises IOError for a missing file, del attr_map[0]
\* raises IndexError for an empty one
get_control_descrition(m, path) ==
    IF m.err # "" THEN m
    ELSE IF path \notin DOMAIN DescFiles THEN Raise(m, "IOError")
    ELSE IF DescFiles[path] = <<>> THEN Raise(m, "IndexError")
    ELSE Did(AppendMaps(m, Tail(DescFiles[path])), "get_control_descrition")

\* read_ctrl: open() raises IOError for a path it cannot open; an IOError of
\* fdr.read() is caught and printed ("print"), and leaves `data` unbound for the
\* unpack_to_ctrl(data) that follows
read_ctrl(m, files, path, rd) ==
    IF m.err # "" THEN m
    ELSE IF path \notin DOMAIN files THEN Raise(m, "IOError")
    ELSE IF rd = "read_fails" THEN Raise(Did(m, "print"), "UnboundLocalError")
    ELSE Did([m EXCEPT !.ctrl = unpack_to_ctrl(@, files[path])], "unpack_to_ctrl")

get_control(m, files, rd) ==
    IF m.err # "" THEN m
    ELSE LET path == m.ui["edt_file"]
             tmp == SplitOn(path)
         IN  IF Len(tmp) < 2 THEN Raise(m, "IndexError")
             ELSE IF tmp[2] # <<"s", "y", "s">> /\ tmp[2] # <<"d", "e", "v">> THEN m
             ELSE LET found == Search(path)
                      m1 == IF found # <<>>
                            THEN get_control_descrition(m, SysDevices \o found)
                            ELSE m
                      m2 == read_ctrl(m1, files, path, rd)
                  IN  Did(update_form(m2, TriggersFile), "update_form")

\* write_ctrl: the handler's record and the files afterwards; an IOError of
\* fdw.write() is caught and printed ("print")
write_ctrl(m, files, path, wr) ==
    IF m.err # "" THEN [m |-> m, files |-> files]
    ELSE IF path \notin DOMAIN files THEN [m |-> Raise(m, "IOError"), files |-> files]
    ELSE IF wr = "write_fails" THEN [m |-> Did(Did(m, "print"), "write_ctrl"), files |-> files]
    ELSE [m |-> Did(Did(m, "write"), "write_ctrl"),
          files |-> [files EXCEPT ![path] = pack_to_bin(m.ctrl)]]

set_control(m, files, wr, rd) ==
    LET m1 == Did(update_ctrl(m), "update_ctrl")
        w == write_ctrl(m1, files, m1.ui["edt_file"], wr)
    IN  [m |-> get_control(w.m, w.files, rd), files |-> w.files, stored |-> m1]



\* ------------------------------------------------------------ the events
M == [ctrl |-> ctrl, ui |-> ui, dis |-> dis, combo |-> combo, dev_ext |-> dev_ext_attr,
      trg_ext |-> trg_ext_attr, maps |-> attr_map_list, err |-> "", done |-> <<>>]

Commit(m) ==
    /\ ctrl' = m.ctrl
    /\ ui' = m.ui
    /\ dis' = m.dis
    /\ combo' = m.combo
    /\ dev_ext_attr' = m.dev_ext
    /\ trg_ext_attr' = m.trg_ext
    /\ attr_map_list' = m.maps

\* what `call` records of an event: op, the widget or path it is about, the outcomes
\* drawn for write() and read(), the exception that left the handler, the steps
\* completed, whether the form showed the control block untouched when the event
\* began, and for set_control the form and block before and the block and
\* exception after its update_ctrl
NoEvent ==
    [op |-> "init", arg |-> <<>>, wr |-> "", rd |-> "", err |-> "", done |-> <<>>,
     shown |-> FALSE, fresh |-> FALSE, form |-> <<>>, before |-> <<>>,
     stored |-> <<>>, uerr |-> ""]

\* __init__: the widgets as Qt creates them (empty, enabled), the trigger combo
\* filled with "user" asked for
UiInit ==
    LET m == fill_combo([combo |-> <<>>, err |-> ""], TriggersFile, <<"u", "s", "e", "r">>)
    IN  /\ ctrl = NewZioCtrl
        /\ ui = [w \in Widgets |-> <<>>]
        /\ dis = [w \in Widgets |-> FALSE]
        /\ combo = m.combo
        /\ locked = FALSE
        /\ dev_ext_attr = NewAttrList(ExtLength)
        /\ trg_ext_attr = NewAttrList(ExtLength)
        /\ attr_map_list = <<>>
        /\ devfile = (PathA :> Block(1, 6, 1, 8, 128))
                     @@ (PathB :> Block(33, 14, 3, 16, 5))
                     @@ (PathNoDev :> Block(32769, 32774, Pow2(30) + 1, 8, 128))
                     @@ (PathTmp :> NewZioCtrl)
        /\ call = NoEvent
        /\ ExtIdle
        /\ MapIdle

\* the user changes the text of a QLineEdit of the form: textChanged
UserEdit(w, text) ==
    /\ ~dis[w]
    /\ ui[w] # text
    /\ LET m == textChanged([M EXCEPT !.ui[w] = text], w, text)
       IN  /\ Commit(m)
           /\ call' = [NoEvent EXCEPT !.op = "edit", !.arg = w, !.err = m.err]
    /\ UNCHANGED <<locked, devfile, extVars, mapVars>>

\* the user changes the text of slot i of the device's extended attributes
UserEditExt(i, text) ==
    /\ ~dev_ext_attr[i + 1].disabled
    /\ dev_ext_attr[i + 1].text # text
    /\ dev_ext_attr' = setValue(dev_ext_attr, i, text)
    /\ call' = [NoEvent EXCEPT !.op = "edit", !.arg = "dev_ext_attr"]
    /\ UNCHANGED <<ctrl, ui, dis, combo, locked, trg_ext_attr, attr_map_list, devfile,
                   extVars, mapVars>>

\* editingFinished of one of the four mask fields
EditingFinished(w) ==
    /\ ~dis[w]
    /\ LET m == CASE w = "edt_dev_stdmask" -> StdMaskEdited(M, w, dev_std_attr)
                  [] w = "edt_trg_stdmask" -> StdMaskEdited(M, w, trg_std_attr)
                  [] w = "edt_dev_extmask" -> ExtMaskEdited(M, w, "dev_ext")
                  [] w = "edt_trg_extmask" -> ExtMaskEdited(M, w, "trg_ext")
       IN  /\ Commit(m)
           /\ call' = [NoEvent EXCEPT !.op = "editingFinished", !.arg = w, !.err = m.err,
                                      !.form = ui]
    /\ UNCHANGED <<locked, devfile, extVars, mapVars>>

\* stateChanged of ckb_lock_field
LockFields ==
    /\ locked' = ~locked
    /\ Commit(lock_fields(M, ~locked))
    /\ call' = [NoEvent EXCEPT !.op = "lock_fields"]
    /\ UNCHANGED <<devfile, extVars, mapVars>>

\* btn_get clicked
GetControl(rd) ==
    /\ Len(attr_map_list) <= MaxMaps
    /\ LET m == get_control(M, devfile, rd)
       IN  /\ Commit(m)
           /\ call' = [NoEvent EXCEPT !.op = "get_control", !.arg = ui["edt_file"],
                                      !.rd = rd, !.err = m.err, !.done = m.done,
                                      !.shown = "update_form" \in Range(m.done)]
    /\ UNCHANGED <<locked, devfile, extVars, mapVars>>

\* btn_set clicked
SetControl(wr, rd) ==
    /\ Len(attr_map_list) <= MaxMaps
    /\ LET r == set_control(M, devfile, wr, rd)
       IN  /\ Commit(r.m)
           /\ devfile' = r.files
           /\ call' = [NoEvent EXCEPT !.op = "set_control", !.arg = ui["edt_file"],
                                      !.wr = wr, !.rd = rd, !.err = r.m.err,
                                      !.done = r.m.done,
                                      !.shown = "update_form" \in Range(r.m.done),
                                      !.fresh = call.shown, !.form = ui, !.before = ctrl,
                                      !.stored = r.stored.ctrl, !.uerr = r.stored.err]
    /\ UNCHANGED <<locked, extVars, mapVars>>

\* the device at the path of the form acquires another control block
DeviceChange(block) ==
    /\ ui["edt_file"] \in DOMAIN devfile
    /\ devfile[ui["edt_file"]] # block
    /\ devfile' = [devfile EXCEPT ![ui["edt_file"]] = block]
    /\ UNCHANGED <<ctrl, ui, dis, combo, locked, dev_ext_attr, trg_ext_attr,
                   attr_map_list, call, extVars, mapVars>>

Blocks == {Block(0, 0, 0, 0, 0), Block(33, 14, 3, 16, 5)}

\* ---------------------------------- pre-sample, post-sample and nsample
NsTexts == {<<>>, <<"8">>, <<"1", "2", "0">>, <<"a", "b", "c">>, <<"-", "3">>, <<"sup2">>}

NsNext ==
    \/ \E w \in {"edt_trg_pre", "edt_trg_post"}, t \in NsTexts : UserEdit(w, t)
    \/ UserEdit("edt_file", PathNoDev)
    \/ GetControl("ok")
    \/ \E b \in Blocks : DeviceChange(b)

SpecNsample == UiInit /\ [][NsNext]_vars

\* text consists only of decimal digits
DecOnly(text) == text # <<>> /\ \A k \in DOMAIN text : IsDec(text[k])

\* C4's lenient(t)
Lenient(text) == IF DecOnly(text) THEN DigitsVal(text, 10) ELSE 0

\* C4: whenever the text of the pre-sample or the post-sample field changes, the
\* handler raises nothing and leaves nsample = lenient(pre) + lenient(post).
C4_NsampleFollows ==
    [][(ui'["edt_trg_pre"] # ui["edt_trg_pre"] \/ ui'["edt_trg_post"] # ui["edt_trg_post"])
          => /\ call'.err = ""
             /\ ui'["edt_nsample"]
                  = PyStr(Lenient(ui'["edt_trg_pre"]) + Lenient(ui'["edt_trg_post"]))]_vars


\* --------------------------------------------- nbits and the nbit attribute
NbitNext ==
    \/ \E t \in {<<"8">>, <<"a", "b", "c">>} : UserEdit("edt_dev_nbit", t)
    \/ UserEdit("edt_nbits", <<"1", "6">>)
    \/ UserEdit("edt_dev_stdmask", <<"0", "x", "0">>)
    \/ EditingFinished("edt_dev_stdmask")
    \/ LockFields
    \/ UserEdit("edt_file", PathB)
    \/ GetControl("ok")
    \/ SetControl("ok", "ok")

SpecNbit == UiInit /\ [][NbitNext]_vars

\* C5: the nbits field mirrors the nbit attribute field: the same text while that
\* text is numeric, blank while it is not; an update_ctrl that completes stores
\* the number as ctrl.nbits; and the edits of the nbit attribute raise nothing.
C5_NbitsMirrors ==
    /\ IF DecOnly(ui["edt_dev_nbit"])
       THEN ui["edt_nbits"] = ui["edt_dev_nbit"]
       ELSE ui["edt_nbits"] = <<>>
    /\ (call.op = "set_control" /\ call.uerr = "" /\ DecOnly(call.form["edt_dev_nbit"]))
          => call.stored.nbits = IntVal(call.form["edt_dev_nbit"])
    /\ (call.op = "edit" /\ call.arg = "edt_dev_nbit") => call.err = ""

\* ---------------------------------------------- texts that are not numbers
InputNext ==
    \/ \E t \in {<<>>, <<"a", "b", "c">>} : UserEdit("edt_vm1", t)
    \/ UserEdit("edt_dev_extmask", <<"z", "z">>)
    \/ UserEditExt(0, <<"x">>)
    \/ \E w \in {"edt_dev_stdmask", "edt_trg_stdmask", "edt_dev_extmask", "edt_trg_extmask"} :
          EditingFinished(w)
    \/ UserEdit("edt_file", PathNoDev)
    \/ GetControl("ok")
    \/ SetControl("ok", "ok")

SpecInput == UiInit /\ [][InputNext]_vars

\* the decimal fields and the hexadecimal fields update_ctrl reads for every block
DecFields ==
    {<<"major_version", "edt_vm1">>, <<"minor_version", "edt_vm2">>,
     <<"seq_num", "edt_nseq">>, <<"ssize", "edt_ssize">>, <<"nbits", "edt_nbits">>,
     <<"nsamples", "edt_nsample">>, <<"host_type", "edt_hosttype">>,
     <<"dev_id", "edt_devid">>, <<"cset_i", "edt_cset">>, <<"chan_i", "edt_chan">>,
     <<"seconds", "edt_sec">>, <<"ticks", "edt_ticks">>, <<"bins", "edt_bins">>}
HexFields ==
    {<<"alarms_zio", "edt_alarm_zio">>, <<"alarms_dev", "edt_alarm_dev">>,
     <<"flags", "edt_flags">>}

\* C6: update_ctrl and the mask-edited handlers raise nothing whatever the texts of
\* the numeric fields, and update_ctrl stores 0 for each field whose text is not a
\* valid number.
C6_NonNumericIsZero ==
    /\ call.op = "editingFinished" => call.err = ""
    /\ call.op = "set_control" =>
          /\ call.uerr = ""
          /\ \A f \in DecFields :
                ~IntOk(call.form[f[2]]) => call.stored[f[1]] = 0
          /\ \A f \in HexFields :
                ~Int16Ok(call.form[f[2]]) => call.stored[f[1]] = 0

\* ------------------------------------------------------ devices and files
IONext ==
    \/ \E p \in {PathA, PathB, PathTmp} : UserEdit("edt_file", p)
    \/ \E rd \in {"ok", "read_fails"} : GetControl(rd)
    \/ \E wr \in {"ok", "write_fails"}, rd \in {"ok", "read_fails"} : SetControl(wr, rd)

SpecIO == UiInit /\ [][IONext]_vars

\* the descriptors of the control-description of the device a path names
Descriptors(path) ==
    LET lines == Tail(DescFiles[SysDevices \o Search(path)])
    IN  [k \in DOMAIN lines |-> ZioAttrMap(lines[k])]

\* C7: once get_control has read the control-description of the device its path
\* names, the attribute-descriptor list holds the descriptors of that device, each
\* once, and nothing else.
C7_ListOfDevice ==
    (call.op \in {"get_control", "set_control"}
        /\ "get_control_descrition" \in Range(call.done))
      => attr_map_list = Descriptors(call.arg)

\* C9: a write or a read that fails with an I/O error (its message is printed)
\* ends the operation with that I/O error; the device is not read again, no block
\* is decoded and the form is not refreshed.
C9_IOErrorSurfaced ==
    "print" \in Range(call.done)
      => /\ call.err = "IOError"
         /\ "unpack_to_ctrl" \notin Range(call.done)
         /\ "update_form" \notin Range(call.done)

\* the fields of a block the round trip is to keep
Kept(c) ==
    [f \in {"major_version", "minor_version", "seq_num", "ssize", "nbits", "nsamples",
            "alarms_zio", "alarms_dev", "flags", "host_type", "hostid", "dev_id",
            "cset_i", "chan_i", "devname", "seconds", "ticks", "bins"} |-> c[f]]
    @@ [f \in {"attr_channel", "attr_trigger"} |->
          [std_mask |-> c[f].std_mask,
           ext_mask |-> c[f].ext_mask,
           std_val |-> [k \in 1 .. 16 |->
                          IF Bit(c[f].std_mask, k - 1) THEN c[f].std_val[k] ELSE 0],
           ext_val |-> [k \in 1 .. ExtLength |->
                          IF Bit(c[f].ext_mask, k - 1) THEN c[f].ext_val[k] ELSE 0]]]

\* C10: an update_ctrl that follows an update_form with no edit in between raises
\* nothing and stores the block update_form showed: every header, address, time
\* stamp and mask field and the value of every enabled attribute slot.
C10_RoundTrip ==
    (call.op = "set_control" /\ call.fresh)
      => /\ call.uerr = ""
         /\ Kept(call.stored) = Kept(call.before)


=============================================================================
